---- MODULE Spec2Model ----
(***************************************************************************)
(* The PersonalCalculator component of                                     *)
(* src/src/PersonalCommute/PersonalCommuteCalc.jsx as a state machine.     *)
(*                                                                         *)
(* Representation.                                                         *)
(*  - A JavaScript string that the code inspects character by character    *)
(*    (postcodes, travel methods, query parameter values) is a sequence of *)
(*    one-character strings.  Messages and labels the code only stores and *)
(*    shows are TLA+ strings.                                              *)
(*  - A JavaScript value is a record [t, v]: t is "null", "undef", "nan",  *)
(*    "num" or "str".  A number is kept in fixed point: v is the value     *)
(*    times Scale (hundredths).  Every number the model feeds to the code  *)
(*    has at most two decimals, and for those the IEEE-754 evaluation of   *)
(*    e * 2 * 230 / 25 and Math.ceil agree with exact arithmetic: the      *)
(*    quotient is an integer only for multiples of 1.25, which doubles     *)
(*    represent exactly.                                                   *)
(*  - The lead-capture form (email, submitStatus, ...) is peripheral: no   *)
(*    handler of it is in the source file and none touches the state below.*)
(***************************************************************************)
EXTENDS Integers, Sequences, FiniteSets, TLC

VARIABLES
  phase,            \* "constructed" (useState defaults, effect not yet run), "mounted", "crashed" (render threw)
  url,              \* window.location.search: [trees, emissions, method], each Null or Str(chars)
  homePostcode,     \* line 25
  workPostcode,     \* line 26
  travelMethod,     \* line 27
  carbonEmissions,  \* line 28
  treesNeeded,      \* line 29
  isLoading,        \* line 30
  error,            \* line 31
  shareTooltip,     \* line 32
  isSharedView,     \* line 33
  showTooltip,      \* line 34
  fetches,          \* estimation calls in flight: sequence of request bodies [origin, destination, mode]
  estimateRequest,  \* history: the request body whose response set the current estimate, NoRequest if none did
  writes,           \* number of navigator.clipboard.writeText calls in flight
  timers,           \* pending setTimeout callbacks of handleShare: remaining ms each
  copiedAgo,        \* ms since the last successful copy, capped at TooltipMs
  consoleError,     \* whether console.error of line 151 has run since the page loaded
  calcIn,           \* argument of a stand-alone calculateTreesNeeded evaluation
  calcOut           \* its result, Null before the evaluation

vars == <<phase, url, homePostcode, workPostcode, travelMethod, carbonEmissions,
          treesNeeded, isLoading, error, shareTooltip, isSharedView, showTooltip,
          fetches, estimateRequest, writes, timers, copiedAgo, consoleError,
          calcIn, calcOut>>

\* The component's own state (the useState cells of lines 25-34).
componentState == <<homePostcode, workPostcode, travelMethod, carbonEmissions,
                    treesNeeded, isLoading, error, shareTooltip, isSharedView,
                    showTooltip>>

(***************************************************************************)
(* Bounds of the model                                                     *)
(***************************************************************************)
\* At most this many clipboard writes and tooltip timers are pending at once.
MaxCopies == 2
\* Largest argument (in hundredths of a kg) of the stand-alone evaluation.
MaxCalcInput == 1000

(***************************************************************************)
(* Program constants                                                       *)
(***************************************************************************)
KG_CO2_PER_TREE_PER_YEAR == 25
TooltipMs == 2000

\* Fixed-point scale of numbers: hundredths.
Scale == 10 * 10
\* Granularity of the model's clock.
TickMs == TooltipMs \div 2

(***************************************************************************)
(* JavaScript values                                                       *)
(***************************************************************************)
Null == [t |-> "null", v |-> 0]
Undefined == [t |-> "undef", v |-> 0]
NaN == [t |-> "nan", v |-> 0]
Num(n) == [t |-> "num", v |-> n]
Str(s) == [t |-> "str", v |-> s]
\* An error message (a string the code only stores and shows).
Msg(m) == [t |-> "msg", v |-> m]

IsNull(x) == x.t = "null"
IsNum(x) == x.t = "num"
\* JavaScript truthiness of a string-or-null value: null and "" are falsy.
Truthy(x) == x.t = "str" /\ x.v # <<>>

(***************************************************************************)
(* Characters                                                              *)
(***************************************************************************)
Digits == <<"0", "1", "2", "3", "4", "5", "6", "7", "8", "9">>
IsDigit(c) == \E i \in 1..10 : Digits[i] = c
DigitVal(c) == (CHOOSE i \in 1..10 : Digits[i] = c) - 1

Lower == <<"a", "b", "c", "d", "e", "f", "g", "h", "i", "j", "k", "l", "m",
           "n", "o", "p", "q", "r", "s", "t", "u", "v", "w", "x", "y", "z">>
Upper == <<"A", "B", "C", "D", "E", "F", "G", "H", "I", "J", "K", "L", "M",
           "N", "O", "P", "Q", "R", "S", "T", "U", "V", "W", "X", "Y", "Z">>

\* String.prototype.toUpperCase / toLowerCase, character by character.
UpChar(c) == IF \E i \in 1..Len(Lower) : Lower[i] = c
             THEN Upper[CHOOSE i \in 1..Len(Lower) : Lower[i] = c]
             ELSE c
LowChar(c) == IF \E i \in 1..Len(Upper) : Upper[i] = c
              THEN Lower[CHOOSE i \in 1..Len(Upper) : Upper[i] = c]
              ELSE c
toUpperCase(s) == [i \in 1..Len(s) |-> UpChar(s[i])]
toLowerCase(s) == [i \in 1..Len(s) |-> LowChar(s[i])]

\* String.prototype.replace(' ', ''): a string pattern replaces the FIRST
\* occurrence only.
replaceFirstSpace(s) ==
  IF \E i \in 1..Len(s) : s[i] = " "
  THEN LET k == CHOOSE i \in 1..Len(s) : s[i] = " " /\ \A j \in 1..(i - 1) : s[j] # " "
       IN SubSeq(s, 1, k - 1) \o SubSeq(s, k + 1, Len(s))
  ELSE s

(***************************************************************************)
(* Numbers and their conversions                                           *)
(***************************************************************************)
RECURSIVE DigitRun(_, _)
\* Length of the run of decimal digits of s that starts at position i.
DigitRun(s, i) ==
  IF i <= Len(s) /\ IsDigit(s[i]) THEN 1 + DigitRun(s, i + 1) ELSE 0

RECURSIVE DigitsValue(_)
\* The natural number a digit sequence denotes (0 for the empty one).
DigitsValue(d) ==
  IF d = <<>> THEN 0
  ELSE 10 * DigitsValue(SubSeq(d, 1, Len(d) - 1)) + DigitVal(d[Len(d)])

RECURSIVE TrimStart(_)
\* Leading white space is skipped by parseInt and parseFloat.
TrimStart(s) == IF s # <<>> /\ s[1] = " " THEN TrimStart(Tail(s)) ELSE s

RECURSIVE NatToStr(_)
NatToStr(n) ==
  IF n < 10 THEN <<Digits[n + 1]>>
  ELSE NatToStr(n \div 10) \o <<Digits[(n % 10) + 1]>>

\* Sign and unsigned remainder of a numeric literal.
Negative(t) == t # <<>> /\ t[1] = "-"
Unsigned(t) == IF t # <<>> /\ (t[1] = "-" \/ t[1] = "+") THEN Tail(t) ELSE t

\* Number.parseInt(s, 10): optional sign, then the longest prefix of digits;
\* NaN when there is no digit.
parseInt(s) ==
  LET t == TrimStart(s)
      body == Unsigned(t)
      n == DigitRun(body, 1)
  IN IF n = 0 THEN NaN
     ELSE Num((IF Negative(t) THEN -1 ELSE 1) * DigitsValue(SubSeq(body, 1, n)) * Scale)

\* Number.parseFloat(s): optional sign, digits, optional "." and digits; NaN
\* when neither part has a digit.  (Exponents and "Infinity" are not among
\* the inputs of the model; decimals beyond the second are cut, and no input
\* has any.)
parseFloat(s) ==
  LET t == TrimStart(s)
      body == Unsigned(t)
      ni == DigitRun(body, 1)
      hasDot == ni + 1 <= Len(body) /\ body[ni + 1] = "."
      nf == IF hasDot THEN DigitRun(body, ni + 2) ELSE 0
      frac == SubSeq(SubSeq(body, ni + 2, ni + 1 + nf) \o <<"0", "0">>, 1, 2)
  IN IF ni = 0 /\ nf = 0 THEN NaN
     ELSE Num((IF Negative(t) THEN -1 ELSE 1)
              * (DigitsValue(SubSeq(body, 1, ni)) * Scale + DigitsValue(frac)))

\* A mutant of NumberToString: always two decimals, as toFixed(2) gives.
NumberToStringFixed(x) ==
  IF x.t = "nan" THEN <<"N", "a", "N">>
  ELSE LET a == IF x.v < 0 THEN -x.v ELSE x.v
           f == a % Scale
       IN (IF x.v < 0 THEN <<"-">> ELSE <<>>)
          \o NatToStr(a \div Scale)
          \o <<".", Digits[(f \div 10) + 1], Digits[(f % 10) + 1]>>

\* Number.prototype.toString(): the shortest decimal that reads back as the
\* number, so no trailing zero and no "." for an integer; "NaN" for NaN.
NumberToString(x) ==
  IF x.t = "nan" THEN <<"N", "a", "N">>
  ELSE LET a == IF x.v < 0 THEN -x.v ELSE x.v
           f == a % Scale
           d1 == f \div 10
           d2 == f % 10
       IN (IF x.v < 0 THEN <<"-">> ELSE <<>>)
          \o NatToStr(a \div Scale)
          \o (IF f = 0 THEN <<>>
              ELSE IF d2 = 0 THEN <<".", Digits[d1 + 1]>>
              ELSE <<".", Digits[d1 + 1], Digits[d2 + 1]>>)

\* Math.ceil of the rational p / q (q > 0), as an integer.
Ceil(p, q) == -((-p) \div q)

\* A mutant of calculateTreesNeeded: rounds down.
calculateTreesNeededFloor(emissions) ==
  IF emissions.t = "num"
  THEN Num(((emissions.v * 2 * 230) \div (KG_CO2_PER_TREE_PER_YEAR * Scale)) * Scale)
  ELSE IF emissions.t = "null" THEN Num(0) ELSE NaN

\* A mutant of calculateTreesNeeded: one leg a day only.
calculateTreesNeededOneWay(emissions) ==
  IF emissions.t = "num"
  THEN Num(Ceil(emissions.v * 230, KG_CO2_PER_TREE_PER_YEAR * Scale) * Scale)
  ELSE IF emissions.t = "null" THEN Num(0) ELSE NaN

\* calculateTreesNeeded, lines 66-70.  undefined (and NaN) times a number is
\* NaN and Math.ceil(NaN) is NaN; null coerces to 0.
calculateTreesNeeded(emissions) ==
  IF emissions.t = "num"
  THEN LET annualEmissions == emissions.v * 2 * 230
       IN Num(Ceil(annualEmissions, KG_CO2_PER_TREE_PER_YEAR * Scale) * Scale)
  ELSE IF emissions.t = "null" THEN Num(0) ELSE NaN

(***************************************************************************)
(* Inputs of the model                                                     *)
(***************************************************************************)
\* Values typed into the postcode fields (lines 187, 202).
PostcodeInputs == { <<>>, <<"s", "w", "1">>, <<"e", " ", "2", " ", "n">> }

\* Values of the travel-method select (lines 222-231; the "" option is
\* disabled and cannot be chosen).
MethodOptions == { <<"t", "a", "x", "i">>, <<"B", "i", "k", "e">> }

\* A query string: the values of its parameters, Null for an absent one.
Query(trees, emissions, method) ==
  [trees |-> trees, emissions |-> emissions, method |-> method]

\* The query strings the page is loaded with.
Urls ==
  { Query(Null, Null, Null),
    Query(Str(<<"9", "2">>), Str(<<"5", ".", "0">>), Str(<<"B", "i", "k", "e">>)),
    Query(Str(<<"4", "6">>), Str(<<"2", ".", "5", "0">>), Null),
    Query(Str(<<"4", "6">>), Str(<<"2", ".", "5">>), Null),
    Query(Str(<<"4", "6">>), Str(<<"5", ".", "0">>), Null),
    Query(Str(<<"a", "b", "c">>), Str(<<"5", ".", "0">>), Null),
    Query(Str(<<"-", "3">>), Str(<<"5", ".", "0">>), Null),
    Query(Str(<<"9", "2">>), Str(<<"x", "y", "z">>), Null),
    Query(Str(<<"9", "2">>), Null, Str(<<"B", "i", "k", "e">>)),
    Query(Null, Str(<<"5", ".", "0">>), Null),
    Query(Str(<<>>), Str(<<"5", ".", "0">>), Null) }

\* emissions_kgCO2e of a well-formed payload, in hundredths of a kg.
Payloads == { 10, 125, 500 }

\* How an estimation call can settle.
Outcomes ==
  [kind : {"ok"}, e : Payloads]
    \cup [kind : {"missing", "badjson", "notok", "netfail"}, e : {0}]

NoParams == Query(Null, Null, Null)

(***************************************************************************)
(* Rendering                                                               *)
(***************************************************************************)
\* Line 250 renders the result block when carbonEmissions !== null, and line
\* 259 calls carbonEmissions.toFixed(2) in it: a TypeError on undefined.
RenderThrows(ce) == ce.t = "undef"

\* The input form, with the Visualize button, is rendered (line 173).
FormShown == phase = "mounted" /\ ~isSharedView
\* A mutant of VisualizeEnabled: the button is not disabled while loading.
VisualizeEnabledWhileLoading == FormShown

\* A mutant of VisualizeEnabled: the form is not hidden in shared view.
VisualizeEnabledInSharedView == phase = "mounted" /\ ~isLoading

\* The Visualize button is rendered and enabled (lines 173, 236).
VisualizeEnabled == FormShown /\ ~isLoading
\* The share button is rendered (lines 250, 286).
ShareShown == phase = "mounted" /\ ~IsNull(carbonEmissions) /\ ~isSharedView
\* The reset button is rendered (line 309).
ResetShown == phase = "mounted" /\ isSharedView

(***************************************************************************)
(* Construction and load                                                   *)
(***************************************************************************)
\* The useState defaults of lines 25-34.
Defaults ==
  /\ homePostcode = <<>>
  /\ workPostcode = <<>>
  /\ travelMethod = <<>>
  /\ carbonEmissions = Null
  /\ treesNeeded = Num(0)
  /\ isLoading = FALSE
  /\ error = Null
  /\ shareTooltip = "Copy link"
  /\ isSharedView = FALSE
  /\ showTooltip = FALSE

\* No request: the mode of a real request is never empty (line 77).
NoRequest == [origin |-> <<>>, destination |-> <<>>, mode |-> <<>>]

Idle ==
  /\ fetches = <<>>
  /\ estimateRequest = NoRequest
  /\ writes = 0
  /\ timers = <<>>
  /\ copiedAgo = TooltipMs
  /\ consoleError = FALSE

Init ==
  /\ phase = "constructed"
  /\ url \in Urls
  /\ Defaults
  /\ Idle
  /\ calcIn = 0
  /\ calcOut = Null

\* Line 51: if (trees && emissions).
SharedParamsPresent(trees, emissions) == Truthy(trees) /\ Truthy(emissions)

\* The effect of lines 45-58, run once after the first render.
Load ==
  /\ phase = "constructed"
  /\ LET trees == url.trees
         emissions == url.emissions
         method == url.method
     IN IF SharedParamsPresent(trees, emissions)
        THEN /\ treesNeeded' = parseInt(trees.v)
             /\ carbonEmissions' = parseFloat(emissions.v)
             /\ isSharedView' = TRUE
             /\ travelMethod' = IF Truthy(method) THEN method.v ELSE travelMethod
        ELSE UNCHANGED <<treesNeeded, carbonEmissions, isSharedView, travelMethod>>
  /\ phase' = "mounted"
  /\ UNCHANGED <<url, homePostcode, workPostcode, isLoading, error, shareTooltip,
                 showTooltip, fetches, writes, timers, copiedAgo,
                 calcIn, calcOut, estimateRequest,
                 consoleError>>

\* A page reload: a new component instance on the current URL; pending
\* callbacks of the old page are gone.
Reload ==
  /\ phase # "constructed"
  /\ phase' = "constructed"
  /\ homePostcode' = <<>>
  /\ workPostcode' = <<>>
  /\ travelMethod' = <<>>
  /\ carbonEmissions' = Null
  /\ treesNeeded' = Num(0)
  /\ isLoading' = FALSE
  /\ error' = Null
  /\ shareTooltip' = "Copy link"
  /\ isSharedView' = FALSE
  /\ showTooltip' = FALSE
  /\ fetches' = <<>>
  /\ estimateRequest' = NoRequest
  /\ writes' = 0
  /\ timers' = <<>>
  /\ copiedAgo' = TooltipMs
  /\ consoleError' = FALSE
  /\ UNCHANGED <<url, calcIn, calcOut>>

(***************************************************************************)
(* The form                                                                *)
(***************************************************************************)
\* onChange of the home postcode input, line 187.
setHomePostcode(value) ==
  /\ FormShown
  /\ homePostcode' = value
  /\ UNCHANGED <<phase, url, workPostcode, travelMethod, carbonEmissions,
                 treesNeeded, isLoading, error, shareTooltip, isSharedView,
                 showTooltip, fetches, writes, timers, copiedAgo,
                 calcIn, calcOut, estimateRequest,
                 consoleError>>

\* onChange of the work postcode input, line 202.
setWorkPostcode(value) ==
  /\ FormShown
  /\ workPostcode' = value
  /\ UNCHANGED <<phase, url, homePostcode, travelMethod, carbonEmissions,
                 treesNeeded, isLoading, error, shareTooltip, isSharedView,
                 showTooltip, fetches, writes, timers, copiedAgo,
                 calcIn, calcOut, estimateRequest,
                 consoleError>>

\* onChange of the travel-method select, line 216.
setTravelMethod(value) ==
  /\ FormShown
  /\ travelMethod' = value
  /\ UNCHANGED <<phase, url, homePostcode, workPostcode, carbonEmissions,
                 treesNeeded, isLoading, error, shareTooltip, isSharedView,
                 showTooltip, fetches, writes, timers, copiedAgo,
                 calcIn, calcOut, estimateRequest,
                 consoleError>>

(***************************************************************************)
(* handleVisualize, lines 75-114                                           *)
(***************************************************************************)
\* A mutant of InputsMissing: the travel method is not validated.
InputsMissingPostcodesOnly == homePostcode = <<>> \/ workPostcode = <<>>

\* Line 77: !homePostcode || !workPostcode || !travelMethod.
InputsMissing == homePostcode = <<>> \/ workPostcode = <<>> \/ travelMethod = <<>>

\* The request body of lines 91-95.
RequestBody ==
  [origin |-> toUpperCase(replaceFirstSpace(homePostcode)),
   destination |-> toUpperCase(replaceFirstSpace(workPostcode)),
   mode |-> toLowerCase(travelMethod)]

\* A click on the Visualize button: lines 75-96, up to the await of fetch.
handleVisualize ==
  /\ VisualizeEnabled
  /\ IF InputsMissing
     THEN /\ error' = Msg("Please fill in all fields")
          /\ UNCHANGED <<isLoading, fetches>>
     ELSE /\ isLoading' = TRUE
          /\ error' = Null
          /\ fetches' = Append(fetches, RequestBody)
  /\ UNCHANGED <<phase, url, homePostcode, workPostcode, travelMethod,
                 carbonEmissions, treesNeeded, shareTooltip, isSharedView,
                 showTooltip, writes, timers, copiedAgo, calcIn,
                 calcOut, estimateRequest,
                 consoleError>>

RemoveAt(q, i) == SubSeq(q, 1, i - 1) \o SubSeq(q, i + 1, Len(q))

\* What the catch block of line 110 stores for a failed call.  The thrown
\* values are Error instances: the Error of line 99, the TypeError of a
\* rejected fetch, the SyntaxError of response.json().
FailureMessage(kind) ==
  CASE kind = "notok" -> Msg("Failed to calculate carbon emissions")
    [] kind = "netfail" -> Msg("Failed to fetch")
    [] kind = "badjson" -> Msg("Unexpected token in JSON")

\* data.emissions_kgCO2e of a parsed body, line 106.
PayloadEmissions(o) == IF o.kind = "ok" THEN Num(o.e) ELSE Undefined

\* The i-th call in flight settles with outcome o: lines 98-113, then the
\* render of the new state.
Respond(i, o) ==
  /\ phase = "mounted"
  /\ i \in 1..Len(fetches)
  /\ fetches' = RemoveAt(fetches, i)
  /\ IF o.kind \in {"ok", "missing"}
     THEN LET emissions == PayloadEmissions(o)
          IN /\ carbonEmissions' = emissions
             /\ treesNeeded' = calculateTreesNeeded(emissions)
             /\ estimateRequest' = fetches[i]
             /\ UNCHANGED error
     ELSE /\ error' = FailureMessage(o.kind)
          /\ UNCHANGED <<carbonEmissions, treesNeeded, estimateRequest>>
  /\ isLoading' = FALSE
  /\ phase' = IF RenderThrows(carbonEmissions') THEN "crashed" ELSE phase
  /\ UNCHANGED <<url, homePostcode, workPostcode, travelMethod, shareTooltip,
                 isSharedView, showTooltip, writes, timers,
                 copiedAgo, calcIn, calcOut,
                 consoleError>>

(***************************************************************************)
(* Sharing, lines 121-153                                                  *)
(***************************************************************************)
\* URLSearchParams.toString() of a value: a space becomes "+"; the other
\* characters of the model (letters, digits, "-", ".", "_") stand for
\* themselves.
FormEncode(s) == [i \in 1..Len(s) |-> IF s[i] = " " THEN "+" ELSE s[i]]

\* A mutant of generateShareableLink: the postcodes are appended too.
generateShareableLinkWithPostcodes ==
  IF IsNull(carbonEmissions) THEN <<>>
  ELSE << <<"trees", FormEncode(NumberToString(treesNeeded))>>,
          <<"emissions", FormEncode(NumberToString(carbonEmissions))>> >>
       \o (IF travelMethod # <<>>
           THEN << <<"method", FormEncode(travelMethod)>> >> ELSE <<>>)
       \o << <<"home", FormEncode(homePostcode)>>,
             <<"work", FormEncode(workPostcode)>> >>

\* generateShareableLink, lines 121-134.  The link is its query string, a
\* sequence of <<key, value>> pairs behind the page's own address; the empty
\* sequence is the "" of line 122.
generateShareableLink ==
  IF IsNull(carbonEmissions) THEN <<>>
  ELSE << <<"trees", FormEncode(NumberToString(treesNeeded))>>,
          <<"emissions", FormEncode(NumberToString(carbonEmissions))>> >>
       \o (IF travelMethod # <<>>
           THEN << <<"method", FormEncode(travelMethod)>> >> ELSE <<>>)

\* A click on the share button: lines 139-143, up to the await.  The text
\* handed to writeText is generateShareableLink at the click; the clipboard's
\* content is outside the component and is not kept.
handleShare ==
  /\ ShareShown
  /\ writes + Len(timers) < MaxCopies
  /\ writes' = writes + 1
  /\ UNCHANGED <<phase, url, homePostcode, workPostcode, travelMethod,
                 carbonEmissions, treesNeeded, isLoading, error, shareTooltip,
                 isSharedView, showTooltip, fetches, timers, copiedAgo,
                 calcIn, calcOut, estimateRequest,
                 consoleError>>

\* A mutant of WriteSettles: a failed write shows the tooltip and starts the
\* timer as a successful one does.
WriteSettlesFailureShown(ok) ==
  /\ phase = "mounted"
  /\ writes > 0
  /\ writes' = writes - 1
  /\ shareTooltip' = "Copied!"
  /\ showTooltip' = TRUE
  /\ timers' = Append(timers, TooltipMs)
  /\ copiedAgo' = 0
  /\ consoleError' = (consoleError \/ ~ok)
  /\ UNCHANGED <<phase, url, homePostcode, workPostcode, travelMethod,
                 carbonEmissions, treesNeeded, isLoading, error, isSharedView,
                 fetches, calcIn, calcOut, estimateRequest>>

\* A clipboard write settles: lines 144-149 when it succeeded, line 151 when
\* it failed.
WriteSettles(ok) ==
  /\ phase = "mounted"
  /\ writes > 0
  /\ writes' = writes - 1
  /\ IF ok
     THEN /\ shareTooltip' = "Copied!"
          /\ showTooltip' = TRUE
          /\ timers' = Append(timers, TooltipMs)
          /\ copiedAgo' = 0
          /\ UNCHANGED consoleError
     ELSE /\ consoleError' = TRUE
          /\ UNCHANGED <<shareTooltip, showTooltip, timers, copiedAgo>>
  /\ UNCHANGED <<phase, url, homePostcode, workPostcode, travelMethod,
                 carbonEmissions, treesNeeded, isLoading, error, isSharedView,
                 fetches, calcIn, calcOut, estimateRequest>>

\* The callback of lines 146-149, run when its delay has passed.
Timeout(i) ==
  /\ phase = "mounted"
  /\ i \in 1..Len(timers)
  /\ timers[i] = 0
  /\ timers' = RemoveAt(timers, i)
  /\ shareTooltip' = "Copy link"
  /\ showTooltip' = FALSE
  /\ UNCHANGED <<phase, url, homePostcode, workPostcode, travelMethod,
                 carbonEmissions, treesNeeded, isLoading, error, isSharedView,
                 fetches, writes, copiedAgo, calcIn, calcOut, estimateRequest,
                 consoleError>>

\* Time passes; a callback that is due runs before more time passes.
Tick ==
  /\ phase = "mounted"
  /\ timers # <<>> \/ copiedAgo < TooltipMs
  /\ \A i \in 1..Len(timers) : timers[i] > 0
  /\ timers' = [i \in 1..Len(timers) |->
                  IF timers[i] > TickMs THEN timers[i] - TickMs ELSE 0]
  /\ copiedAgo' = IF copiedAgo + TickMs < TooltipMs THEN copiedAgo + TickMs
                  ELSE TooltipMs
  /\ UNCHANGED <<phase, url, homePostcode, workPostcode, travelMethod,
                 carbonEmissions, treesNeeded, isLoading, error, shareTooltip,
                 isSharedView, showTooltip, fetches, writes, calcIn,
                 calcOut, estimateRequest,
                 consoleError>>

(***************************************************************************)
(* Leaving the shared view, lines 311-316                                  *)
(***************************************************************************)
resetSharedView ==
  /\ ResetShown
  /\ url' = NoParams
  /\ isSharedView' = FALSE
  /\ UNCHANGED <<phase, homePostcode, workPostcode, travelMethod,
                 carbonEmissions, treesNeeded, isLoading, error, shareTooltip,
                 showTooltip, fetches, writes, timers, copiedAgo,
                 calcIn, calcOut, estimateRequest,
                 consoleError>>

(***************************************************************************)
(* The component                                                           *)
(***************************************************************************)
Next ==
  \/ Load
  \/ Reload
  \/ \E value \in PostcodeInputs : setHomePostcode(value)
  \/ \E value \in PostcodeInputs : setWorkPostcode(value)
  \/ \E value \in MethodOptions : setTravelMethod(value)
  \/ handleVisualize
  \/ \E i \in 1..Len(fetches), o \in Outcomes : Respond(i, o)
  \/ handleShare
  \/ \E ok \in BOOLEAN : WriteSettles(ok)
  \/ \E i \in 1..Len(timers) : Timeout(i)
  \/ Tick
  \/ resetSharedView

Spec == Init /\ [][Next]_vars

(***************************************************************************)
(* calculateTreesNeeded on its own                                         *)
(***************************************************************************)
InitCalc ==
  /\ phase = "constructed"
  /\ url = NoParams
  /\ Defaults
  /\ Idle
  /\ calcIn \in 0..MaxCalcInput
  /\ calcOut = Null

\* One evaluation of calculateTreesNeeded(calcIn / Scale).
Evaluate ==
  /\ IsNull(calcOut)
  /\ calcOut' = calculateTreesNeeded(Num(calcIn))
  /\ UNCHANGED <<phase, url, homePostcode, workPostcode, travelMethod,
                 carbonEmissions, treesNeeded, isLoading, error, shareTooltip,
                 isSharedView, showTooltip, fetches, writes, timers,
                 copiedAgo, calcIn, estimateRequest,
                 consoleError>>

NextCalc == Evaluate

SpecCalc == InitCalc /\ [][NextCalc]_vars

(***************************************************************************)
(* Properties                                                              *)
(***************************************************************************)
\* The specified number of trees for v hundredths of a kg one way:
\* ceil(e * 460 / 25), in hundredths.
SpecTrees(v) == Ceil(v * 460, 25 * Scale) * Scale

\* s occurs in h as a contiguous substring.
Contains(h, s) ==
  \E i \in 1..(Len(h) - Len(s) + 1) : SubSeq(h, i, i + Len(s) - 1) = s

\* The component shows the input form and no call is running.
InInput == phase = "mounted" /\ ~isSharedView /\ ~isLoading

\* C1: when an estimation call ends in a non-2xx response or a network
\* failure, the component is back in Input with a non-empty error message
\* and no estimate: carbonEmissions is null and treesNeeded is 0, also when
\* an earlier call had succeeded.
C1_FailedCallLeavesNoEstimate ==
  [][\A i \in 1..Len(fetches) : \A k \in {"notok", "netfail"} :
       Respond(i, [kind |-> k, e |-> 0])
         => /\ InInput'
            /\ error'.t = "msg" /\ error'.v # ""
            /\ IsNull(carbonEmissions')
            /\ treesNeeded' = Num(0)]_vars

\* C2: whenever an estimate is present, treesNeeded is
\* ceil(carbonEmissions * 2 * 230 / 25), whether the estimate came from a
\* live call or from the query parameters.
C2_TreesFollowEmissions ==
  (phase = "mounted" /\ ~IsNull(carbonEmissions))
    => IF IsNum(carbonEmissions)
       THEN treesNeeded = Num(Ceil(carbonEmissions.v * 2 * 230, 25 * Scale) * Scale)
       ELSE treesNeeded.t = "nan"

\* C3: a submit with the home postcode, the work postcode or the travel
\* method empty starts no estimation call and ends in the validation error,
\* with isLoading still false.
C3_EmptyInputNeverCalls ==
  [][(handleVisualize
        /\ (homePostcode = <<>> \/ workPostcode = <<>> \/ travelMethod = <<>>))
       => /\ fetches' = fetches
          /\ error' = Msg("Please fill in all fields")
          /\ isLoading' = FALSE]_vars

\* C3 witness: a validation error is shown, a field is empty, nothing is in
\* flight.
C3_Witness ==
  /\ InInput
  /\ error = Msg("Please fill in all fields")
  /\ homePostcode # <<>> /\ workPostcode # <<>> /\ travelMethod = <<>>
  /\ fetches = <<>>

\* C4: when an estimation call succeeds with emissions e, the component is
\* in Result with carbonEmissions = e, treesNeeded = ceil(e * 460 / 25),
\* isLoading false and no error message.
C4_SuccessSetsResult ==
  [][\A i \in 1..Len(fetches) : \A e \in Payloads :
       Respond(i, [kind |-> "ok", e |-> e])
         => /\ InInput'
            /\ carbonEmissions' = Num(e)
            /\ treesNeeded' = Num(SpecTrees(e))
            /\ IsNull(error')]_vars

\* C4 witness: on a page loaded without a trees parameter, where only a live
\* call sets an estimate, e = 5 gave 92 trees.
C4_Witness ==
  /\ InInput
  /\ url = Query(Null, Str(<<"5", ".", "0">>), Null)
  /\ carbonEmissions = Num(5 * Scale)
  /\ treesNeeded = Num(92 * Scale)
  /\ IsNull(error)

\* C5: for every non-negative e, calculateTreesNeeded(e) is
\* ceil(e * 460 / 25): 0 for 0, 46 for 2.5, 184 for 10; and the evaluation
\* changes no component state.
C5_CalculateTreesNeeded ==
  /\ [](~IsNull(calcOut)
          => /\ calcOut = Num(SpecTrees(calcIn))
             /\ (calcIn = 0 => calcOut = Num(0))
             /\ (calcIn = 250 => calcOut = Num(46 * Scale))
             /\ (calcIn = 1000 => calcOut = Num(184 * Scale)))
  /\ [][calcOut' # calcOut => UNCHANGED componentState]_vars

\* C5 witness: calculateTreesNeeded(2.5) was evaluated and gave 46.
C5_Witness == calcIn = 250 /\ calcOut = Num(46 * Scale)

\* The keys of a link, in order.
LinkKeys(link) == [i \in 1..Len(link) |-> link[i][1]]

\* The text p, nonempty, occurs in no value of the link, neither as typed nor
\* as a query string would encode it.
AbsentFrom(link, p) ==
  p # <<>> => \A i \in 1..Len(link) :
                ~Contains(link[i][2], p) /\ ~Contains(link[i][2], FormEncode(p))

\* C6: the link of generateShareableLink holds only trees, emissions and,
\* if a travel method is set, method, and contains neither postcode: not
\* the ones in the form, not the ones sent in the call that made the
\* estimate.
C6_LinkHasNoPostcodes ==
  phase = "mounted" =>
    LET link == generateShareableLink
    IN /\ LinkKeys(link) \in { <<>>, <<"trees", "emissions">>,
                               <<"trees", "emissions", "method">> }
       /\ (Len(link) = 3) <=> (~IsNull(carbonEmissions) /\ travelMethod # <<>>)
       /\ AbsentFrom(link, homePostcode)
       /\ AbsentFrom(link, workPostcode)
       /\ AbsentFrom(link, estimateRequest.origin)
       /\ AbsentFrom(link, estimateRequest.destination)

\* C6 witness: a link can be shared for an estimate made from two postcodes
\* that are still in the form.
C6_Witness ==
  /\ ShareShown
  /\ estimateRequest.origin # <<>> /\ estimateRequest.destination # <<>>
  /\ homePostcode # <<>> /\ workPostcode # <<>>
  /\ Len(generateShareableLink) = 3

\* A trees parameter that parses as a non-negative integer, an emissions
\* parameter that parses as a float.
ValidSharedParams(q) ==
  /\ q.trees.t = "str" /\ q.emissions.t = "str"
  /\ IsNum(parseInt(q.trees.v)) /\ parseInt(q.trees.v).v >= 0
  /\ IsNum(parseFloat(q.emissions.v))

\* C7: at load the component enters shared view only when trees and
\* emissions are both present and parse as a non-negative integer and a
\* float; otherwise it stays in Input with no estimate set.
C7_OnlyValidParamsEnterSharedView ==
  [][Load => /\ isSharedView' => ValidSharedParams(url)
             /\ ~ValidSharedParams(url)
                  => /\ ~isSharedView'
                     /\ IsNull(carbonEmissions')
                     /\ treesNeeded' = Num(0)]_vars

\* C8: the reset action of the shared view clears the query parameters and
\* leaves a blank Input state: isSharedView false, carbonEmissions null,
\* treesNeeded 0 and no travel method carried over.
C8_ResetLeavesBlankInput ==
  [][resetSharedView
       => /\ url' = NoParams
          /\ ~isSharedView'
          /\ IsNull(carbonEmissions')
          /\ treesNeeded' = Num(0)
          /\ travelMethod' = <<>>]_vars

\* C9: a load with both trees and emissions present (each with a value, as
\* line 51 tests them) puts the component in SharedResult with no
\* estimation call, treesNeeded and carbonEmissions taken from the
\* parameters, and no form field populated: the postcodes and the
\* travel-method selection (the select's value, travelMethod) are empty.
C9_SharedLoadPopulatesNoField ==
  [][(Load /\ Truthy(url.trees) /\ Truthy(url.emissions))
       => /\ isSharedView'
          /\ fetches' = <<>> /\ ~isLoading'
          /\ treesNeeded' = parseInt(url.trees.v)
          /\ carbonEmissions' = parseFloat(url.emissions.v)
          /\ homePostcode' = <<>> /\ workPostcode' = <<>>
          /\ travelMethod' = <<>>]_vars

\* C10: after a successful copy the acknowledgment is shown for a full
\* window of TooltipMs from the latest successful copy, and is gone once
\* the window has passed and no callback is pending.
C10_TooltipLastsFullWindow ==
  phase = "mounted" =>
    /\ copiedAgo < TooltipMs => (showTooltip /\ shareTooltip = "Copied!")
    /\ (copiedAgo = TooltipMs /\ timers = <<>>)
         => (~showTooltip /\ shareTooltip = "Copy link")

\* C11: at most one estimation call is in flight; while one is, isLoading is
\* true and the submit button is disabled.
C11_OneCallInFlight ==
  /\ Len(fetches) <= 1
  /\ fetches # <<>> => (isLoading /\ ~VisualizeEnabled)
  /\ (phase = "mounted" /\ isLoading) => fetches # <<>>

\* C11 witness: a call is in flight.
C11_Witness == phase = "mounted" /\ Len(fetches) = 1 /\ isLoading

\* C12: when a call returns a success status with a malformed payload (an
\* unparseable body, or a body without emissions_kgCO2e), the component is
\* back in Input with an error message and no estimate is set:
\* carbonEmissions stays null and treesNeeded is not set to a non-number.
C12_MalformedPayloadIsAnError ==
  [][\A i \in 1..Len(fetches) : \A k \in {"missing", "badjson"} :
       Respond(i, [kind |-> k, e |-> 0])
         => /\ InInput'
            /\ error'.t = "msg" /\ error'.v # ""
            /\ IsNull(carbonEmissions) => IsNull(carbonEmissions')
            /\ treesNeeded' = treesNeeded \/ IsNum(treesNeeded')]_vars

\* C13: once the response of a call arrives, whatever it is, isLoading is
\* false and the submit button is enabled again.
C13_ResponseReenablesSubmit ==
  [][\A i \in 1..Len(fetches) : \A o \in Outcomes :
       Respond(i, o) => (~isLoading' /\ VisualizeEnabled')]_vars

\* C14 as claimed: an estimation call is only started from a state with no
\* estimate present.
C14_CallOnlyFromNoEstimate ==
  [][Len(fetches') > Len(fetches) => IsNull(carbonEmissions)]_vars

\* C14 as amended: an estimation call is only started from the input form
\* with no call in flight and the three fields filled in (not in shared
\* view, isLoading false); an estimate may already be present there.
C14_CallOnlyFromInputForm ==
  [][Len(fetches') > Len(fetches)
       => /\ InInput
          /\ homePostcode # <<>> /\ workPostcode # <<>> /\ travelMethod # <<>>
          /\ isLoading']_vars

\* C14 witness: a call is in flight that was started while the estimate of
\* an earlier call was shown.
C14_Witness ==
  /\ phase = "mounted" /\ isLoading /\ fetches # <<>>
  /\ IsNum(carbonEmissions)
  /\ estimateRequest # NoRequest

\* The value of parameter key in a link that has it.
LinkValue(link, key) ==
  link[CHOOSE i \in 1..Len(link) : link[i][1] = key][2]

AllDigits(d) == d # <<>> /\ \A i \in 1..Len(d) : IsDigit(d[i])
\* A natural number without a superfluous leading zero.
CanonicalNat(d) == AllDigits(d) /\ (Len(d) = 1 \/ d[1] # "0")
\* An integer as Number.prototype.toString writes it.
CanonicalInt(s) ==
  \/ CanonicalNat(s)
  \/ s # <<>> /\ s[1] = "-" /\ CanonicalNat(Tail(s)) /\ Tail(s) # <<"0">>
\* A decimal as Number.prototype.toString writes it: no trailing zero in the
\* fraction, no "." without a fraction.
CanonicalDecimal(s) ==
  \/ CanonicalInt(s)
  \/ \E k \in 2..(Len(s) - 1) :
       /\ s[k] = "."
       /\ \/ CanonicalNat(SubSeq(s, 1, k - 1))
          \/ s[1] = "-" /\ CanonicalNat(SubSeq(s, 2, k - 1))
       /\ AllDigits(SubSeq(s, k + 1, Len(s)))
       /\ s[Len(s)] # "0"
\* Digits, a ".", digits: a decimal the model's numbers hold without loss.
PlainDecimal(s) ==
  \E k \in 2..(Len(s) - 1) :
    /\ s[k] = "."
    /\ AllDigits(SubSeq(s, 1, k - 1))
    /\ AllDigits(SubSeq(s, k + 1, Len(s)))
    /\ Len(s) - k <= 2

\* C15 as claimed: decoding the query parameters and encoding the decoded
\* state gives back the identical trees and emissions strings, for integer
\* trees and an emissions decimal held without loss (trees=46,
\* emissions=2.50).
C15_RoundTripIdentical ==
  (phase = "mounted" /\ isSharedView
     /\ CanonicalInt(url.trees.v) /\ PlainDecimal(url.emissions.v))
    => /\ LinkValue(generateShareableLink, "trees") = url.trees.v
       /\ LinkValue(generateShareableLink, "emissions") = url.emissions.v

\* C15 as amended: the re-encoded trees and emissions strings denote the
\* same numbers as the decoded ones, and are the identical strings exactly
\* when the incoming string is already written the way
\* Number.prototype.toString writes it (46, 2.5; not 2.50 or 5.0).
C15_RoundTripCanonical ==
  (phase = "mounted" /\ isSharedView)
    => LET trees == LinkValue(generateShareableLink, "trees")
           emissions == LinkValue(generateShareableLink, "emissions")
       IN /\ parseInt(trees) = parseInt(url.trees.v)
          /\ parseFloat(emissions) = parseFloat(url.emissions.v)
          /\ CanonicalInt(url.trees.v) => trees = url.trees.v
          /\ CanonicalDecimal(url.emissions.v) => emissions = url.emissions.v
          /\ (IsNum(carbonEmissions) /\ emissions = url.emissions.v)
               => CanonicalDecimal(url.emissions.v)

\* C15 witness: trees=46&emissions=2.5 was decoded and encodes to the same
\* strings.
C15_Witness ==
  /\ phase = "mounted" /\ isSharedView
  /\ url.trees = Str(<<"4", "6">>) /\ url.emissions = Str(<<"2", ".", "5">>)
  /\ LinkValue(generateShareableLink, "trees") = <<"4", "6">>
  /\ LinkValue(generateShareableLink, "emissions") = <<"2", ".", "5">>

\* s without any of its spaces.
RemoveSpaces(s) == SelectSeq(s, LAMBDA c : c # " ")

\* C16: the origin and destination sent to the endpoint are the postcodes
\* with every space removed and uppercased, and the mode is the travel
\* method lowercased.
C16_RequestIsNormalized ==
  [][Len(fetches') > Len(fetches)
       => fetches'[Len(fetches')] =
            [origin |-> toUpperCase(RemoveSpaces(homePostcode)),
             destination |-> toUpperCase(RemoveSpaces(workPostcode)),
             mode |-> toLowerCase(travelMethod)]]_vars

\* C17: a clipboard write that fails changes nothing the user can see and
\* schedules no timer; it only logs a diagnostic.
C17_FailedCopyChangesNothing ==
  [][WriteSettles(FALSE)
       => /\ UNCHANGED <<componentState, phase, url, timers, fetches>>
          /\ consoleError']_vars

\* C17 witness: a copy has failed and none has ever succeeded; the share
\* button still reads "Copy link" and no timer is pending.
C17_Witness ==
  /\ phase = "mounted" /\ ShareShown
  /\ consoleError
  /\ copiedAgo = TooltipMs
  /\ shareTooltip = "Copy link" /\ ~showTooltip
  /\ timers = <<>>

\* C18: whenever a link can be shared for an estimate that a call produced,
\* the link's method parameter is the travel method that call sent, even if
\* the field was edited afterwards.
C18_LinkMethodIsEstimateMethod ==
  (ShareShown /\ estimateRequest # NoRequest)
    => /\ \E i \in 1..Len(generateShareableLink) :
            generateShareableLink[i][1] = "method"
       /\ toLowerCase(LinkValue(generateShareableLink, "method"))
            = estimateRequest.mode

\* C19: in shared view no estimation call and no copy can be started or be
\* under way, and shared view is entered only by the load effect: once it
\* has been reset it is not entered again without a reload.
C19_SharedViewStartsNothing ==
  /\ []((phase = "mounted" /\ isSharedView)
          => /\ ~FormShown /\ ~VisualizeEnabled /\ ~ShareShown
             /\ fetches = <<>> /\ writes = 0 /\ timers = <<>>)
  /\ [][isSharedView => (fetches' = <<>> /\ writes' = 0)]_vars
  /\ [][(isSharedView' /\ ~isSharedView) => phase = "constructed"]_vars
  /\ [][resetSharedView => (~isSharedView' /\ url' = NoParams)]_vars

\* C19 witness: a shared view has been reset; its estimate, which no call of
\* this page produced, is shown next to the form, and a call is in flight.
C19_Witness ==
  /\ phase = "mounted" /\ ~isSharedView
  /\ url = NoParams
  /\ IsNum(carbonEmissions) /\ estimateRequest = NoRequest
  /\ fetches # <<>>

====
